---- MODULE Spec2Model ----
(***************************************************************************)
(* Team chat relay (Luckyyt623/teamchat).                                  *)
(*                                                                         *)
(* The repository holds several variants of one WebSocket relay.  Three    *)
(* are modelled here, each as its own specification over the same          *)
(* variables:                                                              *)
(*   Spec        the authorKey variant        (src/unnamed/part_002)       *)
(*   SpecServer  the code-only variant        (src/server.js)              *)
(*   SpecP1      the teamUsername variant     (src/unnamed/part_001)       *)
(* SpecTimed is Spec with the schedule of the cleanup timer and fairness.  *)
(*                                                                         *)
(* A handler of the JavaScript source runs to completion on the event      *)
(* loop, so every handler is one action.  The functions a handler calls    *)
(* are operators that take the shared state as a record                    *)
(*   st = [readyState, users, teamChannels, messageHistory, sent]          *)
(* and return the state after the call, in the order the code calls them.  *)
(***************************************************************************)
EXTENDS Integers, Sequences, FiniteSets, TLC

VARIABLES
    now,             \* Date.now(), in clock ticks
    readyState,      \* socket -> "NONE" | "OPEN" | "CLOSING" | "CLOSED"
    users,           \* the Map users: socket -> session record
    teamChannels,    \* the Map teamChannels: team code -> set of sockets
    messageHistory,  \* the object messageHistory: own key -> array of records
    sent,            \* socket -> frames ws.send() wrote to it in the last handler
    last,            \* the handler that ran last: [op, ws]
    authed,          \* history: socket -> team codes it passed authentication for
    handled,         \* history: number of inbound frames handled so far
    sentMessages     \* part_001: socket -> its _sentMessages set (none = empty)

vars == <<now, readyState, users, teamChannels, messageHistory, sent, last, authed,
          handled, sentMessages>>

----------------------------------------------------------------------------
(* Bounds of the model *)

\* number of sockets that may ever connect
MaxConns == 2
\* number of inbound frames the server handles in one run
MaxHandled == 4
\* the clock runs from 0 to MaxTime
MaxTime == 1
\* MAX_HISTORY of the source (50 / 100), scaled down
MAX_HISTORY == 2
\* MSG_LIFETIME_MS of the source (10 min / 30 min), scaled to clock ticks
MSG_LIFETIME_MS == 1
\* clock ticks in a day: getCurrentTime() renders the time of day only
DayTicks == 2

Conns == 1..MaxConns

----------------------------------------------------------------------------
(* JavaScript values *)

Null == "<null>"
Undefined == "<undefined>"

\* Keys every plain object inherits from Object.prototype: obj[k] is a
\* function (truthy, no .push, no .authorKey) although k is no own key.
ProtoKeys == {"constructor"}

\* a || b for a string-or-undefined a
OrElse(a, b) == IF a \in {Undefined, Null, ""} THEN b ELSE a

\* teamCodes of part_002
teamCodes ==
    ("[REKT]" :> [code |-> "REKT", authorKey |-> "authorKeyREKT"]) @@
    ("[SMT]" :> [code |-> "SMT", authorKey |-> "authorKeySMT"])

\* teamCodes[code] is truthy
teamCodesTruthy(code) == code \in DOMAIN teamCodes \/ code \in ProtoKeys

\* teamCodes[code].authorKey, for a truthy teamCodes[code]
teamCodesAuthorKey(code) ==
    IF code \in DOMAIN teamCodes THEN teamCodes[code].authorKey ELSE Undefined

\* `${teamCodes[code].code}`, for a truthy teamCodes[code]
teamCodesCode(code) ==
    IF code \in DOMAIN teamCodes THEN teamCodes[code].code ELSE "undefined"

\* getCurrentTime(): the time of day of the clock, as text
getCurrentTime(t) == t % DayTicks

----------------------------------------------------------------------------
(* Inbound frames: what JSON.parse(message) yields, a missing field being *)
(* Undefined.                                                             *)

Usernames == {"Alice", Undefined}
TeamCodeInputs == {"[REKT]", "[SMT]", "constructor", Undefined}
AuthorKeyInputs == {"authorKeyREKT", "authorKeySMT", Undefined}
Texts == {"hi"}
ChannelInputs == {"global", "[REKT]", "[SMT]", "lobby", "constructor", Undefined}

\* a parsed frame with no field but its type
Frame(type) ==
    [type |-> type, username |-> Undefined, teamCode |-> Undefined,
     authorKey |-> Undefined, code |-> Undefined, text |-> Undefined,
     channel |-> Undefined]

UserJoinData == {[Frame("user-join") EXCEPT !.username = n] : n \in Usernames}
JoinTeamData == {[Frame("join-team") EXCEPT !.teamCode = c, !.authorKey = k] :
                    c \in TeamCodeInputs, k \in AuthorKeyInputs}
ChatMessageData == {[Frame("chat-message") EXCEPT !.text = t, !.channel = ch] :
                    t \in Texts, ch \in ChannelInputs}
GetHistoryData == {[Frame("get-history") EXCEPT !.channel = ch] : ch \in ChannelInputs}
\* a type the switch does not know
UnknownData == {Frame("ping")}
\* a frame JSON.parse rejects, or one that parses to null
MalformedData == {Frame("<malformed>")}

----------------------------------------------------------------------------
(* Outbound frames and records *)

SystemMessage(text, t) ==
    [type |-> "system-message", text |-> text,
     timestamp |-> getCurrentTime(t), rawTime |-> t]

ChatMessage(username, text, channel, t) ==
    [type |-> "chat-message", username |-> username, text |-> text,
     timestamp |-> getCurrentTime(t), channel |-> channel, rawTime |-> t]

\* the frame of a direct reply: { type: 'system-message', text, timestamp }
Reply(text, t) ==
    [type |-> "system-message", text |-> text, timestamp |-> getCurrentTime(t)]

JoinedText(username) == "[" \o username \o "] joined the chat."
LeftText(username) == "[" \o username \o "] left the chat."

----------------------------------------------------------------------------
(* The shared state as a value *)

\* the state a handler starts from: nothing sent yet
State == [readyState |-> readyState, users |-> users,
          teamChannels |-> teamChannels, messageHistory |-> messageHistory,
          sent |-> [c \in Conns |-> <<>>]]

\* wss.clients: the sockets the server holds
clients(st) == {c \in Conns : st.readyState[c] \in {"OPEN", "CLOSING"}}

\* ws.send(JSON.stringify(frame))
send(st, ws, frame) == [st EXCEPT !.sent[ws] = Append(@, frame)]

\* S.forEach(client => { if (client.readyState === WebSocket.OPEN) client.send(..) })
sendOpen(st, S, frame) ==
    [st EXCEPT !.sent = [c \in Conns |->
        IF c \in S /\ st.readyState[c] = "OPEN" THEN Append(st.sent[c], frame)
        ELSE st.sent[c]]]

----------------------------------------------------------------------------
(* The history store, as part_002 and server.js write it inline *)

\* mutant of historyPush: trims with pop() instead of shift()
historyPush_Pop(st, channel, msg) ==
    LET h0 == IF channel \in DOMAIN st.messageHistory
              THEN st.messageHistory[channel] ELSE <<>>
        h1 == Append(h0, msg)
        h2 == IF Len(h1) > MAX_HISTORY THEN SubSeq(h1, 1, Len(h1) - 1) ELSE h1
    IN [st EXCEPT !.messageHistory = (channel :> h2) @@ st.messageHistory]

\* mutant of historyPush: the array is never trimmed
historyPush_NoShift(st, channel, msg) ==
    LET h0 == IF channel \in DOMAIN st.messageHistory
              THEN st.messageHistory[channel] ELSE <<>>
    IN [st EXCEPT !.messageHistory = (channel :> Append(h0, msg)) @@ st.messageHistory]

\* mutant of historyPush: a full array loses its second record, not its first
historyPush_DropsSecond(st, channel, msg) ==
    LET h0 == IF channel \in DOMAIN st.messageHistory
              THEN st.messageHistory[channel] ELSE <<>>
        h1 == Append(h0, msg)
        h2 == IF Len(h1) > MAX_HISTORY
              THEN <<h1[1]>> \o SubSeq(h1, 3, Len(h1)) ELSE h1
    IN [st EXCEPT !.messageHistory = (channel :> h2) @@ st.messageHistory]

\* if (!messageHistory[channel]) messageHistory[channel] = [];
\* messageHistory[channel].push(msg);
\* if (messageHistory[channel].length > MAX_HISTORY) messageHistory[channel].shift();
\* (for a channel that is no prototype key: on one, .push is not a function)
historyPush(st, channel, msg) ==
    LET h0 == IF channel \in DOMAIN st.messageHistory
              THEN st.messageHistory[channel] ELSE <<>>
        h1 == Append(h0, msg)
        h2 == IF Len(h1) > MAX_HISTORY THEN Tail(h1) ELSE h1
    IN [st EXCEPT !.messageHistory = (channel :> h2) @@ st.messageHistory]

\* JSON.stringify({ type: 'chat-history', messages: messageHistory[channel] || [] }):
\* a function-valued property is left out of the JSON text
historyFrame(st, channel) ==
    IF channel \in DOMAIN st.messageHistory
    THEN [type |-> "chat-history", messages |-> st.messageHistory[channel]]
    ELSE IF channel \in ProtoKeys
    THEN [type |-> "chat-history"]
    ELSE [type |-> "chat-history", messages |-> <<>>]

\* mutant of sweepFilter: keeps a record whose age is exactly the lifetime
sweepFilter_Inclusive(h, t) ==
    SelectSeq(h, LAMBDA msg : (t - msg.rawTime) <= MSG_LIFETIME_MS)

\* the filter of the cleanup job, on one array
sweepFilter(h, t) == SelectSeq(h, LAMBDA msg : (t - msg.rawTime) < MSG_LIFETIME_MS)

----------------------------------------------------------------------------
(* part_002: the functions *)

sendHistory(st, ws, channel) == send(st, ws, historyFrame(st, channel))

\* mutant of broadcastMessage: no joined check (as server.js has it)
broadcastMessage_NoJoinedCheck(st, msg) == sendOpen(st, clients(st), msg)

broadcastMessage(st, msg) ==
    sendOpen(st, {c \in clients(st) : c \in DOMAIN st.users /\ st.users[c].joined},
             msg)

\* the team fan-out of handleChatMessage and broadcastSystemMessage
teamFanout(st, code, msg) ==
    IF code \in DOMAIN st.teamChannels
    THEN sendOpen(st, st.teamChannels[code], msg)
    ELSE st

\* mutant of broadcastSystemMessage: the notice is sent and not stored
broadcastSystemMessage_NotStored(st, text, channel) ==
    LET msg == SystemMessage(text, now)
    IN IF channel = "global" THEN broadcastMessage(st, msg)
       ELSE teamFanout(st, channel, msg)

broadcastSystemMessage(st, text, channel) ==
    LET msg == SystemMessage(text, now)
        st1 == historyPush(st, channel, msg)
    IN IF channel = "global" THEN broadcastMessage(st1, msg)
       ELSE teamFanout(st1, channel, msg)

\* teamCodes[code] && teamCodes[code].authorKey === authorKey
authenticates(code, authorKey) ==
    teamCodesTruthy(code) /\ teamCodesAuthorKey(code) = authorKey

\* mutant of handleJoinTeam: a successful join is announced on the team's
\* channel
handleJoinTeam_Announces(st, ws, code, authorKey) ==
    IF ws \notin DOMAIN st.users \/ ~st.users[ws].joined THEN st
    ELSE IF authenticates(code, authorKey)
    THEN LET teamUsers == IF code \in DOMAIN st.teamChannels
                          THEN st.teamChannels[code] ELSE {}
             st1 == [st EXCEPT !.users[ws].teamCode = code,
                               !.teamChannels = (code :> (teamUsers \cup {ws})) @@ @]
             st2 == send(st1, ws,
                         Reply("Joined team channel for " \o teamCodesCode(code), now))
             st3 == sendHistory(st2, ws, code)
         IN broadcastSystemMessage(st3, "[" \o st.users[ws].username
                                            \o "] joined the team.", code)
    ELSE send(st, ws, Reply(IF teamCodesTruthy(code) THEN "Invalid author key."
                            ELSE "Invalid team code.", now))

\* mutant of handleJoinTeam: no test of user.joined
handleJoinTeam_NoJoinedCheck(st, ws, code, authorKey) ==
    IF ws \notin DOMAIN st.users THEN st
    ELSE IF authenticates(code, authorKey)
    THEN LET teamUsers == IF code \in DOMAIN st.teamChannels
                          THEN st.teamChannels[code] ELSE {}
             st1 == [st EXCEPT !.users[ws].teamCode = code,
                               !.teamChannels = (code :> (teamUsers \cup {ws})) @@ @]
             st2 == send(st1, ws,
                         Reply("Joined team channel for " \o teamCodesCode(code), now))
         IN sendHistory(st2, ws, code)
    ELSE send(st, ws, Reply(IF teamCodesTruthy(code) THEN "Invalid author key."
                            ELSE "Invalid team code.", now))

\* mutant of handleJoinTeam: a wrong key for a known team still adds the
\* socket to the team's set
handleJoinTeam_FailureAddsMember(st, ws, code, authorKey) ==
    IF ws \notin DOMAIN st.users \/ ~st.users[ws].joined THEN st
    ELSE IF authenticates(code, authorKey)
    THEN LET teamUsers == IF code \in DOMAIN st.teamChannels
                          THEN st.teamChannels[code] ELSE {}
             st1 == [st EXCEPT !.users[ws].teamCode = code,
                               !.teamChannels = (code :> (teamUsers \cup {ws})) @@ @]
             st2 == send(st1, ws,
                         Reply("Joined team channel for " \o teamCodesCode(code), now))
         IN sendHistory(st2, ws, code)
    ELSE LET teamUsers == IF code \in DOMAIN st.teamChannels
                          THEN st.teamChannels[code] ELSE {}
             st1 == IF teamCodesTruthy(code)
                    THEN [st EXCEPT !.teamChannels =
                                       (code :> (teamUsers \cup {ws})) @@ @]
                    ELSE st
         IN send(st1, ws, Reply(IF teamCodesTruthy(code) THEN "Invalid author key."
                                ELSE "Invalid team code.", now))

handleJoinTeam(st, ws, code, authorKey) ==
    IF ws \notin DOMAIN st.users \/ ~st.users[ws].joined THEN st
    ELSE IF authenticates(code, authorKey)
    THEN LET teamUsers == IF code \in DOMAIN st.teamChannels
                          THEN st.teamChannels[code] ELSE {}
             st1 == [st EXCEPT !.users[ws].teamCode = code,
                               !.teamChannels = (code :> (teamUsers \cup {ws})) @@ @]
             st2 == send(st1, ws,
                         Reply("Joined team channel for " \o teamCodesCode(code), now))
         IN sendHistory(st2, ws, code)
    ELSE send(st, ws, Reply(IF teamCodesTruthy(code) THEN "Invalid author key."
                            ELSE "Invalid team code.", now))

\* mutant of handleChatMessage: the record is fanned out and not stored
handleChatMessage_NotStored(st, ws, text, channel) ==
    LET user == st.users[ws]
        msg == ChatMessage(user.username, text, channel, now)
    IN IF channel = "global" THEN broadcastMessage(st, msg)
       ELSE IF user.teamCode # Null THEN teamFanout(st, user.teamCode, msg)
       ELSE st

\* handleChatMessage, for a channel on which .push does not throw
handleChatMessage(st, ws, text, channel) ==
    LET user == st.users[ws]
        msg == ChatMessage(user.username, text, channel, now)
        st1 == historyPush(st, channel, msg)
    IN IF channel = "global" THEN broadcastMessage(st1, msg)
       ELSE IF user.teamCode # Null THEN teamFanout(st1, user.teamCode, msg)
       ELSE st1

\* the body of the try block of ws.on('message') throws
messageThrows(st, ws, data) ==
    \/ data.type = "<malformed>"
    \/ /\ data.type \in {"user-join", "chat-message", "get-history"}
       /\ ws \notin DOMAIN st.users
    \/ /\ data.type = "chat-message"
       /\ ws \in DOMAIN st.users
       /\ st.users[ws].joined
       /\ OrElse(data.channel, "global") \in ProtoKeys

\* the switch of ws.on('message'), when nothing throws
messageSwitch(st, ws, data) ==
    CASE data.type = "user-join" ->
            LET username == OrElse(data.username, "AnonymousSnake")
                st1 == [st EXCEPT !.users[ws].username = username,
                                  !.users[ws].joined = TRUE]
                st2 == broadcastSystemMessage(st1, JoinedText(username), "global")
            IN sendHistory(st2, ws, "global")
      [] data.type = "join-team" ->
            handleJoinTeam(st, ws, data.teamCode, data.authorKey)
      [] data.type = "chat-message" ->
            IF st.users[ws].joined
            THEN handleChatMessage(st, ws, data.text, OrElse(data.channel, "global"))
            ELSE st
      [] data.type = "get-history" ->
            IF st.users[ws].joined
            THEN sendHistory(st, ws, OrElse(data.channel, "global"))
            ELSE st
      [] OTHER ->
            send(st, ws, Reply("Unknown message type.", now))

\* ws.on('message'): try { switch } catch { error reply }
onMessage(st, ws, data) ==
    IF messageThrows(st, ws, data)
    THEN send(st, ws, Reply("Error processing your request.", now))
    ELSE messageSwitch(st, ws, data)

\* mutant of onClose: the cleanup runs for a session that never joined too
\* (the test of server.js: if (user))
onClose_NoJoinedCheck(st, ws) ==
    IF ws \in DOMAIN st.users
    THEN LET user == st.users[ws]
             st1 == broadcastSystemMessage(st, LeftText(user.username), "global")
             st2 == IF user.teamCode # Null /\ user.teamCode \in DOMAIN st1.teamChannels
                    THEN [st1 EXCEPT !.teamChannels[user.teamCode] = @ \ {ws}]
                    ELSE st1
         IN [st2 EXCEPT !.users = [c \in DOMAIN st2.users \ {ws} |-> st2.users[c]]]
    ELSE st

\* ws.on('close')
onClose(st, ws) ==
    IF ws \in DOMAIN st.users /\ st.users[ws].joined
    THEN LET user == st.users[ws]
             st1 == broadcastSystemMessage(st, LeftText(user.username), "global")
             st2 == IF user.teamCode # Null /\ user.teamCode \in DOMAIN st1.teamChannels
                    THEN [st1 EXCEPT !.teamChannels[user.teamCode] = @ \ {ws}]
                    ELSE st1
         IN [st2 EXCEPT !.users = [c \in DOMAIN st2.users \ {ws} |-> st2.users[c]]]
    ELSE st

----------------------------------------------------------------------------
(* part_002: the actions *)

\* the handler's result becomes the next state
Commit(st) ==
    /\ readyState' = st.readyState
    /\ users' = st.users
    /\ teamChannels' = st.teamChannels
    /\ messageHistory' = st.messageHistory
    /\ sent' = st.sent

Event(op, ws) == [op |-> op, ws |-> ws]

NoSent == [c \in Conns |-> <<>>]

Init ==
    /\ now = 0
    /\ readyState = [c \in Conns |-> "NONE"]
    /\ users = << >>
    /\ teamChannels = << >>
    /\ messageHistory = ("global" :> <<>>) @@ ("[REKT]" :> <<>>) @@ ("[SMT]" :> <<>>)
    /\ sent = NoSent
    /\ last = Event("init", 0)
    /\ authed = [c \in Conns |-> {}]
    /\ handled = 0
    /\ sentMessages = [c \in Conns |-> {}]

\* wss.on('connection'): every connection is a new socket, the next unused one
Connection(ws) ==
    /\ readyState[ws] = "NONE"
    /\ \A c \in Conns : c < ws => readyState[c] # "NONE"
    /\ readyState' = [readyState EXCEPT ![ws] = "OPEN"]
    /\ users' = (ws :> [username |-> Null, teamCode |-> Null, joined |-> FALSE]) @@ users
    /\ sent' = NoSent
    /\ last' = Event("connection", ws)
    /\ UNCHANGED <<now, teamChannels, messageHistory, authed, handled, sentMessages>>

\* a frame from ws is handled
Message(ws, data) ==
    /\ readyState[ws] = "OPEN"
    /\ handled < MaxHandled
    /\ handled' = handled + 1
    /\ Commit(onMessage(State, ws, data))
    /\ last' = Event("message", ws)
    /\ authed' = IF /\ data.type = "join-team"
                    /\ ws \in DOMAIN users /\ users[ws].joined
                    /\ authenticates(data.teamCode, data.authorKey)
                 THEN [authed EXCEPT ![ws] = @ \cup {data.teamCode}]
                 ELSE authed
    /\ UNCHANGED <<now, sentMessages>>

UserJoin(ws) == \E data \in UserJoinData : Message(ws, data)
JoinTeam(ws) == \E data \in JoinTeamData : Message(ws, data)
ChatMsg(ws) == \E data \in ChatMessageData : Message(ws, data)
GetHistory(ws) == \E data \in GetHistoryData : Message(ws, data)
UnknownType(ws) == \E data \in UnknownData : Message(ws, data)
Malformed(ws) == \E data \in MalformedData : Message(ws, data)

\* the transport starts the closing handshake: the socket is no longer OPEN,
\* its close event is still to come
Closing(ws) ==
    /\ readyState[ws] = "OPEN"
    /\ readyState' = [readyState EXCEPT ![ws] = "CLOSING"]
    /\ sent' = NoSent
    /\ last' = Event("closing", ws)
    /\ UNCHANGED <<now, users, teamChannels, messageHistory, authed, handled, sentMessages>>

\* the close event of ws: readyState is CLOSED when the handler runs
Close(ws) ==
    /\ readyState[ws] \in {"OPEN", "CLOSING"}
    /\ Commit(onClose([State EXCEPT !.readyState[ws] = "CLOSED"], ws))
    /\ last' = Event("close", ws)
    /\ UNCHANGED <<now, authed, handled, sentMessages>>

\* mutant of Sweep: the job filters the global buffer only
Sweep_GlobalOnly ==
    /\ messageHistory' = [ch \in DOMAIN messageHistory |->
                             IF ch = "global"
                             THEN sweepFilter(messageHistory[ch], now)
                             ELSE messageHistory[ch]]
    /\ sent' = NoSent
    /\ last' = Event("sweep", 0)
    /\ UNCHANGED <<now, readyState, users, teamChannels, authed, handled, sentMessages>>

\* the setInterval cleanup job
Sweep ==
    /\ messageHistory' = [ch \in DOMAIN messageHistory |->
                             sweepFilter(messageHistory[ch], now)]
    /\ sent' = NoSent
    /\ last' = Event("sweep", 0)
    /\ UNCHANGED <<now, readyState, users, teamChannels, authed, handled, sentMessages>>

\* time passes
Tick ==
    /\ now < MaxTime
    /\ now' = now + 1
    /\ sent' = NoSent
    /\ last' = Event("tick", 0)
    /\ UNCHANGED <<readyState, users, teamChannels, messageHistory, authed, handled, sentMessages>>

Next ==
    \/ \E ws \in Conns : Connection(ws)
    \/ \E ws \in Conns : UserJoin(ws)
    \/ \E ws \in Conns : JoinTeam(ws)
    \/ \E ws \in Conns : ChatMsg(ws)
    \/ \E ws \in Conns : GetHistory(ws)
    \/ \E ws \in Conns : UnknownType(ws)
    \/ \E ws \in Conns : Malformed(ws)
    \/ \E ws \in Conns : Closing(ws)
    \/ \E ws \in Conns : Close(ws)
    \/ Sweep
    \/ Tick

Spec == Init /\ [][Next]_vars

----------------------------------------------------------------------------
(* server.js: the functions.  The history store and the cleanup job are    *)
(* written as in part_002; teamCodes maps a code to a name, there is no    *)
(* author key, and a session exists only from its user-join on.            *)

S_CodeInputs == {"[REKT]", "[SMT]", "constructor", Undefined}
S_ChannelInputs == {"global", "team", "[REKT]", "constructor", Undefined}

S_AuthRequestData == {[Frame("auth-request") EXCEPT !.code = c] : c \in S_CodeInputs}
S_JoinTeamData == {[Frame("join-team") EXCEPT !.code = c] : c \in S_CodeInputs}
S_ChatMessageData == {[Frame("chat-message") EXCEPT !.text = t, !.channel = ch] :
                        t \in Texts, ch \in S_ChannelInputs}
S_GetHistoryData == {[Frame("get-history") EXCEPT !.channel = ch] :
                        ch \in S_ChannelInputs}

S_teamCodes == ("[REKT]" :> "REKT") @@ ("[SMT]" :> "SMT")

\* teamCodes[code] is truthy
S_teamCodesTruthy(code) == code \in DOMAIN S_teamCodes \/ code \in ProtoKeys

\* `${teamCodes[code]}`
S_teamCodesText(code) ==
    IF code \in DOMAIN S_teamCodes THEN S_teamCodes[code]
    ELSE IF code \in ProtoKeys THEN "function Object() { [native code] }"
    ELSE "undefined"

\* the property key a channel value names: obj[undefined] is obj["undefined"]
S_key(channel) == IF channel = Undefined THEN "undefined" ELSE channel

\* user?.joined
S_joined(st, ws) == ws \in DOMAIN st.users /\ st.users[ws].joined

S_sendHistory(st, ws, channel) == send(st, ws, historyFrame(st, S_key(channel)))

S_broadcastMessage(st, msg) == sendOpen(st, clients(st), msg)

\* teamChannels.get(code)?.forEach(...)
S_teamFanout(st, code, msg) ==
    IF code \in DOMAIN st.teamChannels
    THEN sendOpen(st, st.teamChannels[code], msg)
    ELSE st

S_broadcastSystemMessage(st, text, channel) ==
    LET msg == SystemMessage(text, now)
        st1 == historyPush(st, channel, msg)
    IN IF channel = "global" THEN S_broadcastMessage(st1, msg)
       ELSE S_teamFanout(st1, channel, msg)

S_handleJoinTeam(st, ws, code) ==
    IF ws \in DOMAIN st.users /\ st.users[ws].teamCode = code
    THEN LET teamUsers == IF code \in DOMAIN st.teamChannels
                          THEN st.teamChannels[code] ELSE {}
             st1 == [st EXCEPT !.teamChannels = (code :> (teamUsers \cup {ws})) @@ @]
         IN send(st1, ws, Reply("Joined team channel for " \o S_teamCodesText(code), now))
    ELSE st

S_handleAuthRequest(st, ws, code) ==
    IF S_teamCodesTruthy(code)
    THEN IF ws \in DOMAIN st.users
         THEN LET st1 == [st EXCEPT !.users[ws].teamCode = code]
                  st2 == send(st1, ws, [type |-> "auth-response", success |-> TRUE,
                                        code |-> code,
                                        timestamp |-> getCurrentTime(now)])
              IN S_handleJoinTeam(st2, ws, code)
         ELSE st
    ELSE send(st, ws, [type |-> "auth-response", success |-> FALSE,
                       timestamp |-> getCurrentTime(now)])

\* handleChatMessage, for a channel on which .push does not throw
S_handleChatMessage(st, ws, text, channel) ==
    LET user == st.users[ws]
        msg == ChatMessage(user.username, text, channel, now)
        st1 == historyPush(st, S_key(channel), msg)
    IN IF channel = "team" /\ user.teamCode # Null
       THEN S_teamFanout(st1, user.teamCode, msg)
       ELSE IF channel = "global" THEN S_broadcastMessage(st1, msg)
       ELSE st1

\* the body of the try block of ws.on('message') throws
S_messageThrows(st, ws, data) ==
    \/ data.type = "<malformed>"
    \/ /\ data.type = "chat-message"
       /\ S_joined(st, ws)
       /\ data.channel \in ProtoKeys

\* the switch of ws.on('message'), when nothing throws
S_messageSwitch(st, ws, data) ==
    CASE data.type = "user-join" ->
            LET username == OrElse(data.username, "AnonymousSnake")
                st1 == [st EXCEPT !.users =
                           (ws :> [username |-> username, teamCode |-> Null,
                                   joined |-> TRUE]) @@ @]
            IN S_broadcastSystemMessage(st1, JoinedText(username), "global")
      [] data.type = "auth-request" ->
            IF S_joined(st, ws) THEN S_handleAuthRequest(st, ws, data.code) ELSE st
      [] data.type = "join-team" ->
            IF S_joined(st, ws) THEN S_handleJoinTeam(st, ws, data.code) ELSE st
      [] data.type = "chat-message" ->
            IF S_joined(st, ws)
            THEN S_handleChatMessage(st, ws, data.text, data.channel) ELSE st
      [] data.type = "get-history" ->
            IF S_joined(st, ws) THEN S_sendHistory(st, ws, data.channel) ELSE st
      [] OTHER -> st

\* ws.on('message'): try { switch } catch { error reply }
S_onMessage(st, ws, data) ==
    IF S_messageThrows(st, ws, data)
    THEN send(st, ws, [type |-> "system-message",
                       text |-> "Error processing your request.",
                       timestamp |-> getCurrentTime(now)])
    ELSE S_messageSwitch(st, ws, data)

\* ws.on('close')
S_onClose(st, ws) ==
    IF ws \in DOMAIN st.users
    THEN LET user == st.users[ws]
             st1 == S_broadcastSystemMessage(st, LeftText(user.username), "global")
             st2 == IF user.teamCode # Null /\ user.teamCode \in DOMAIN st1.teamChannels
                    THEN [st1 EXCEPT !.teamChannels[user.teamCode] = @ \ {ws}]
                    ELSE st1
         IN [st2 EXCEPT !.users = [c \in DOMAIN st2.users \ {ws} |-> st2.users[c]]]
    ELSE st

----------------------------------------------------------------------------
(* server.js: the actions *)

\* wss.on('connection'): nothing is registered until user-join
S_Connection(ws) ==
    /\ readyState[ws] = "NONE"
    /\ \A c \in Conns : c < ws => readyState[c] # "NONE"
    /\ readyState' = [readyState EXCEPT ![ws] = "OPEN"]
    /\ sent' = NoSent
    /\ last' = Event("connection", ws)
    /\ UNCHANGED <<now, users, teamChannels, messageHistory, authed, handled, sentMessages>>

\* a frame from ws is handled
S_Message(ws, data) ==
    /\ readyState[ws] = "OPEN"
    /\ handled < MaxHandled
    /\ handled' = handled + 1
    /\ Commit(S_onMessage(State, ws, data))
    /\ last' = Event("message", ws)
    /\ authed' = IF /\ data.type = "auth-request"
                    /\ S_joined(State, ws)
                    /\ S_teamCodesTruthy(data.code)
                 THEN [authed EXCEPT ![ws] = @ \cup {data.code}]
                 ELSE authed
    /\ UNCHANGED <<now, sentMessages>>

S_UserJoin(ws) == \E data \in UserJoinData : S_Message(ws, data)
S_AuthRequest(ws) == \E data \in S_AuthRequestData : S_Message(ws, data)
S_JoinTeam(ws) == \E data \in S_JoinTeamData : S_Message(ws, data)
S_ChatMsg(ws) == \E data \in S_ChatMessageData : S_Message(ws, data)
S_GetHistory(ws) == \E data \in S_GetHistoryData : S_Message(ws, data)
S_UnknownType(ws) == \E data \in UnknownData : S_Message(ws, data)
S_Malformed(ws) == \E data \in MalformedData : S_Message(ws, data)

\* the close event of ws: readyState is CLOSED when the handler runs
S_Close(ws) ==
    /\ readyState[ws] \in {"OPEN", "CLOSING"}
    /\ Commit(S_onClose([State EXCEPT !.readyState[ws] = "CLOSED"], ws))
    /\ last' = Event("close", ws)
    /\ UNCHANGED <<now, authed, handled, sentMessages>>

S_Init ==
    /\ now = 0
    /\ readyState = [c \in Conns |-> "NONE"]
    /\ users = << >>
    /\ teamChannels = << >>
    /\ messageHistory = ("global" :> <<>>) @@ ("[REKT]" :> <<>>) @@ ("[SMT]" :> <<>>)
    /\ sent = NoSent
    /\ last = Event("init", 0)
    /\ authed = [c \in Conns |-> {}]
    /\ handled = 0
    /\ sentMessages = [c \in Conns |-> {}]

S_Next ==
    \/ \E ws \in Conns : S_Connection(ws)
    \/ \E ws \in Conns : S_UserJoin(ws)
    \/ \E ws \in Conns : S_AuthRequest(ws)
    \/ \E ws \in Conns : S_JoinTeam(ws)
    \/ \E ws \in Conns : S_ChatMsg(ws)
    \/ \E ws \in Conns : S_GetHistory(ws)
    \/ \E ws \in Conns : S_UnknownType(ws)
    \/ \E ws \in Conns : S_Malformed(ws)
    \/ \E ws \in Conns : Closing(ws)
    \/ \E ws \in Conns : S_Close(ws)
    \/ Sweep
    \/ Tick

SpecServer == S_Init /\ [][S_Next]_vars

----------------------------------------------------------------------------
(* part_001: the functions.  A session has a global and a team username,   *)
(* a chat record carries the username of its channel, and every socket has *)
(* a set _sentMessages of the _rawTime values it was sent: a fan-out skips *)
(* a socket whose set holds the record's _rawTime.  A socket without the   *)
(* property behaves as one with the empty set.  A handler runs within one  *)
(* clock tick: every Date.now() of it returns now.                         *)

P_TeamCodeInputs == {"[REKT]", "[SMT]", Undefined}
P_AuthorKeyInputs == {"authorKeyREKT", "wrongKey", Undefined}
P_ChannelInputs == {"global", "[REKT]", "[SMT]", Undefined}

P_UserJoinData == {[Frame("user-join") EXCEPT !.username = n, !.authorKey = k] :
                    n \in Usernames, k \in P_AuthorKeyInputs}
P_JoinTeamData == {[Frame("join-team") EXCEPT !.teamCode = c, !.authorKey = k] :
                    c \in P_TeamCodeInputs, k \in P_AuthorKeyInputs}
P_ChatMessageData == {[Frame("chat-message") EXCEPT !.text = t, !.channel = ch] :
                        t \in Texts, ch \in P_ChannelInputs}
P_GetHistoryData == {[Frame("get-history") EXCEPT !.channel = ch] :
                        ch \in P_ChannelInputs}

\* teamCodes of part_001
P_teamCodes ==
    ("[REKT]" :> [code |-> "REKT", authorKey |-> "authorKeyREKT",
                  username |-> "REKT_Member"]) @@
    ("[SMT]" :> [code |-> "SMT", authorKey |-> "authorKeySMT",
                 username |-> "SMT_Member"])

\* teamCodes[code] is truthy
P_teamCodesTruthy(code) == code \in DOMAIN P_teamCodes \/ code \in ProtoKeys

\* teamCodes[code].authorKey, for a truthy teamCodes[code]
P_teamCodesAuthorKey(code) ==
    IF code \in DOMAIN P_teamCodes THEN P_teamCodes[code].authorKey ELSE Undefined

\* teamCodes[code].username, for a truthy teamCodes[code]
P_teamCodesUsername(code) ==
    IF code \in DOMAIN P_teamCodes THEN P_teamCodes[code].username ELSE Undefined

\* `${teamCodes[code].code}`, for a truthy teamCodes[code]
P_teamCodesCode(code) ==
    IF code \in DOMAIN P_teamCodes THEN P_teamCodes[code].code ELSE "undefined"

\* `${x}` for a string-or-undefined x
P_text(x) == IF x = Undefined THEN "undefined" ELSE IF x = Null THEN "null" ELSE x

\* a value is truthy: neither null, undefined nor the empty string
P_truthy(x) == x \notin {Undefined, Null, ""}

P_LeftTeamText(username) == "[" \o username \o "] left the team chat."

\* the state a handler starts from: nothing sent yet
P_State == [readyState |-> readyState, users |-> users,
            teamChannels |-> teamChannels, messageHistory |-> messageHistory,
            sent |-> [c \in Conns |-> <<>>], sentMessages |-> sentMessages]

\* S.forEach(client => { if (client.readyState === WebSocket.OPEN
\*                           && !client._sentMessages?.has(msg._rawTime)) {
\*     client._sentMessages = client._sentMessages || new Set();
\*     client._sentMessages.add(msg._rawTime); client.send(JSON.stringify(msg)); } })
P_sendOnce(st, S, msg) ==
    LET takes(c) == /\ c \in S
                    /\ st.readyState[c] = "OPEN"
                    /\ msg.rawTime \notin st.sentMessages[c]
    IN [st EXCEPT !.sent = [c \in Conns |->
                               IF takes(c) THEN Append(st.sent[c], msg)
                               ELSE st.sent[c]],
                  !.sentMessages = [c \in Conns |->
                               IF takes(c) THEN st.sentMessages[c] \cup {msg.rawTime}
                               ELSE st.sentMessages[c]]]

P_sendHistory(st, ws, channel) ==
    send([st EXCEPT !.sentMessages[ws] = {}], ws, historyFrame(st, channel))

P_broadcastMessage(st, msg) ==
    P_sendOnce(st, {c \in clients(st) : c \in DOMAIN st.users /\ st.users[c].joined},
               msg)

\* the team fan-out of handleChatMessage and broadcastSystemMessage
P_teamFanout(st, code, msg) ==
    IF code \in DOMAIN st.teamChannels
    THEN P_sendOnce(st, st.teamChannels[code], msg)
    ELSE st

P_broadcastSystemMessage(st, text, channel) ==
    LET msg == SystemMessage(text, now)
        st1 == historyPush(st, channel, msg)
    IN IF channel = "global" THEN P_broadcastMessage(st1, msg)
       ELSE P_teamFanout(st1, channel, msg)

\* teamCodes[code] && teamCodes[code].authorKey === authorKey
P_authenticates(code, authorKey) ==
    P_teamCodesTruthy(code) /\ P_teamCodesAuthorKey(code) = authorKey

P_handleJoinTeam(st, ws, code, authorKey) ==
    IF ws \notin DOMAIN st.users \/ ~st.users[ws].joined THEN st
    ELSE IF P_authenticates(code, authorKey)
    THEN LET teamUsers == IF code \in DOMAIN st.teamChannels
                          THEN st.teamChannels[code] ELSE {}
             st1 == [st EXCEPT !.users[ws].teamCode = code,
                               !.users[ws].teamUsername = P_teamCodesUsername(code),
                               !.teamChannels = (code :> (teamUsers \cup {ws})) @@ @]
             st2 == send(st1, ws,
                         Reply("Joined team channel for " \o P_teamCodesCode(code)
                               \o " as " \o P_text(P_teamCodesUsername(code)), now))
         IN P_sendHistory(st2, ws, code)
    ELSE send(st, ws, Reply(IF P_teamCodesTruthy(code) THEN "Invalid author key."
                            ELSE "Invalid team code.", now))

\* the username handleChatMessage takes for the channel
P_usernameFor(user, channel) ==
    IF channel = "global" THEN user.globalUsername ELSE user.teamUsername

\* handleChatMessage, for a channel on which .push does not throw
P_handleChatMessage(st, ws, text, channel) ==
    LET user == st.users[ws]
        username == P_usernameFor(user, channel)
        msg == ChatMessage(username, text, channel, now)
        st1 == historyPush(st, channel, msg)
    IN IF ~P_truthy(username)
       THEN send(st, ws, Reply("Username not set for this channel.", now))
       ELSE IF channel = "global" THEN P_broadcastMessage(st1, msg)
       ELSE IF P_truthy(user.teamCode) THEN P_teamFanout(st1, user.teamCode, msg)
       ELSE st1

\* the user-join case: the first team of teamCodes whose key is authorKey
P_teamOfKey(authorKey) ==
    {code \in DOMAIN P_teamCodes : P_teamCodes[code].authorKey = authorKey}

P_userJoin(st, ws, data) ==
    LET st1 == [st EXCEPT !.users[ws].joined = TRUE]
    IN IF P_truthy(data.authorKey)
       THEN IF P_teamOfKey(data.authorKey) # {}
            THEN [st1 EXCEPT !.users[ws].teamUsername =
                     P_teamCodes[CHOOSE code \in P_teamOfKey(data.authorKey) : TRUE]
                         .username]
            ELSE send(st1, ws, Reply("Invalid author key for team chat.", now))
       ELSE IF P_truthy(data.username)
       THEN LET st2 == [st1 EXCEPT !.users[ws].globalUsername = data.username]
                st3 == P_broadcastSystemMessage(st2, JoinedText(data.username),
                                                "global")
            IN P_sendHistory(st3, ws, "global")
       ELSE st1

\* the body of the try block of ws.on('message') throws
P_messageThrows(st, ws, data) ==
    \/ data.type = "<malformed>"
    \/ /\ data.type \in {"user-join", "chat-message", "get-history"}
       /\ ws \notin DOMAIN st.users
    \/ /\ data.type = "chat-message"
       /\ ws \in DOMAIN st.users
       /\ st.users[ws].joined
       /\ OrElse(data.channel, "global") \in ProtoKeys
       /\ P_truthy(P_usernameFor(st.users[ws], OrElse(data.channel, "global")))

\* the switch of ws.on('message'), when nothing throws
P_messageSwitch(st, ws, data) ==
    CASE data.type = "user-join" -> P_userJoin(st, ws, data)
      [] data.type = "join-team" ->
            P_handleJoinTeam(st, ws, data.teamCode, data.authorKey)
      [] data.type = "chat-message" ->
            IF st.users[ws].joined
            THEN P_handleChatMessage(st, ws, data.text, OrElse(data.channel, "global"))
            ELSE st
      [] data.type = "get-history" ->
            IF st.users[ws].joined
            THEN P_sendHistory(st, ws, OrElse(data.channel, "global"))
            ELSE st
      [] OTHER ->
            send(st, ws, Reply("Unknown message type.", now))

\* ws.on('message'): try { switch } catch { error reply }
P_onMessage(st, ws, data) ==
    IF P_messageThrows(st, ws, data)
    THEN send(st, ws, Reply("Error processing your request.", now))
    ELSE P_messageSwitch(st, ws, data)

\* ws.on('close')
P_onClose(st, ws) ==
    IF ws \in DOMAIN st.users /\ st.users[ws].joined
    THEN LET user == st.users[ws]
             st1 == IF P_truthy(user.globalUsername)
                    THEN P_broadcastSystemMessage(st, LeftText(user.globalUsername),
                                                  "global")
                    ELSE st
             st2 == IF P_truthy(user.teamCode) /\ P_truthy(user.teamUsername)
                    THEN P_broadcastSystemMessage(st1,
                             P_LeftTeamText(user.teamUsername), user.teamCode)
                    ELSE st1
             st3 == IF /\ P_truthy(user.teamCode) /\ P_truthy(user.teamUsername)
                       /\ user.teamCode \in DOMAIN st2.teamChannels
                    THEN [st2 EXCEPT !.teamChannels[user.teamCode] = @ \ {ws}]
                    ELSE st2
         IN [st3 EXCEPT !.users = [c \in DOMAIN st3.users \ {ws} |-> st3.users[c]]]
    ELSE st

----------------------------------------------------------------------------
(* part_001: the actions *)

\* the handler's result becomes the next state
P_Commit(st) == Commit(st) /\ sentMessages' = st.sentMessages

\* wss.on('connection'): every connection is a new socket, the next unused one
P_Connection(ws) ==
    /\ readyState[ws] = "NONE"
    /\ \A c \in Conns : c < ws => readyState[c] # "NONE"
    /\ readyState' = [readyState EXCEPT ![ws] = "OPEN"]
    /\ users' = (ws :> [globalUsername |-> Null, teamCode |-> Null,
                        teamUsername |-> Null, joined |-> FALSE]) @@ users
    /\ sent' = NoSent
    /\ last' = Event("connection", ws)
    /\ UNCHANGED <<now, teamChannels, messageHistory, authed, handled, sentMessages>>

\* a frame from ws is handled
P_Message(ws, data) ==
    /\ readyState[ws] = "OPEN"
    /\ handled < MaxHandled
    /\ handled' = handled + 1
    /\ P_Commit(P_onMessage(P_State, ws, data))
    /\ last' = Event("message", ws)
    /\ authed' = IF /\ data.type = "join-team"
                    /\ ws \in DOMAIN users /\ users[ws].joined
                    /\ P_authenticates(data.teamCode, data.authorKey)
                 THEN [authed EXCEPT ![ws] = @ \cup {data.teamCode}]
                 ELSE authed
    /\ UNCHANGED now

P_UserJoin(ws) == \E data \in P_UserJoinData : P_Message(ws, data)
P_JoinTeam(ws) == \E data \in P_JoinTeamData : P_Message(ws, data)
P_ChatMsg(ws) == \E data \in P_ChatMessageData : P_Message(ws, data)
P_GetHistory(ws) == \E data \in P_GetHistoryData : P_Message(ws, data)
P_UnknownType(ws) == \E data \in UnknownData : P_Message(ws, data)
P_Malformed(ws) == \E data \in MalformedData : P_Message(ws, data)

\* the close event of ws: readyState is CLOSED when the handler runs
P_Close(ws) ==
    /\ readyState[ws] \in {"OPEN", "CLOSING"}
    /\ P_Commit(P_onClose([P_State EXCEPT !.readyState[ws] = "CLOSED"], ws))
    /\ last' = Event("close", ws)
    /\ UNCHANGED <<now, authed, handled>>

P_Init ==
    /\ now = 0
    /\ readyState = [c \in Conns |-> "NONE"]
    /\ users = << >>
    /\ teamChannels = << >>
    /\ messageHistory = ("global" :> <<>>) @@ ("[REKT]" :> <<>>) @@ ("[SMT]" :> <<>>)
    /\ sent = NoSent
    /\ last = Event("init", 0)
    /\ authed = [c \in Conns |-> {}]
    /\ handled = 0
    /\ sentMessages = [c \in Conns |-> {}]

P_Next ==
    \/ \E ws \in Conns : P_Connection(ws)
    \/ \E ws \in Conns : P_UserJoin(ws)
    \/ \E ws \in Conns : P_JoinTeam(ws)
    \/ \E ws \in Conns : P_ChatMsg(ws)
    \/ \E ws \in Conns : P_GetHistory(ws)
    \/ \E ws \in Conns : P_UnknownType(ws)
    \/ \E ws \in Conns : P_Malformed(ws)
    \/ \E ws \in Conns : Closing(ws)
    \/ \E ws \in Conns : P_Close(ws)
    \/ Sweep
    \/ Tick

SpecP1 == P_Init /\ [][P_Next]_vars

----------------------------------------------------------------------------
(* part_002 with its timer.  setInterval runs the cleanup job every        *)
(* SWEEP_INTERVAL: when the clock reaches a multiple of SWEEP_INTERVAL the *)
(* job is the next handler to run.  The clock runs to T_MaxTime, and it    *)
(* does advance: the clock and the timer are weakly fair.                  *)

\* the interval of the cleanup job (120 s / 60 s in the source), in clock ticks
SWEEP_INTERVAL == 2
\* the clock of the timed specification runs from 0 to T_MaxTime
T_MaxTime == 4
\* number of inbound frames the server handles in one timed run
T_MaxHandled == 3

\* the timer has expired and the cleanup job has not run yet
T_Due == now % SWEEP_INTERVAL = 0 /\ last.op = "tick"

T_Connection(ws) == ~T_Due /\ Connection(ws)
T_Message(ws, data) == ~T_Due /\ handled < T_MaxHandled /\ Message(ws, data)
T_UserJoin(ws) == \E data \in UserJoinData : T_Message(ws, data)
T_JoinTeam(ws) == \E data \in JoinTeamData : T_Message(ws, data)
T_ChatMsg(ws) == \E data \in ChatMessageData : T_Message(ws, data)
T_GetHistory(ws) == \E data \in GetHistoryData : T_Message(ws, data)
T_UnknownType(ws) == \E data \in UnknownData : T_Message(ws, data)
T_Malformed(ws) == \E data \in MalformedData : T_Message(ws, data)
T_Closing(ws) == ~T_Due /\ Closing(ws)
T_Close(ws) == ~T_Due /\ Close(ws)

\* the cleanup job, run by its timer
T_Sweep == T_Due /\ Sweep

\* time passes
T_Tick ==
    /\ ~T_Due
    /\ now < T_MaxTime
    /\ now' = now + 1
    /\ sent' = NoSent
    /\ last' = Event("tick", 0)
    /\ UNCHANGED <<readyState, users, teamChannels, messageHistory, authed, handled,
                   sentMessages>>

T_Next ==
    \/ \E ws \in Conns : T_Connection(ws)
    \/ \E ws \in Conns : T_UserJoin(ws)
    \/ \E ws \in Conns : T_JoinTeam(ws)
    \/ \E ws \in Conns : T_ChatMsg(ws)
    \/ \E ws \in Conns : T_GetHistory(ws)
    \/ \E ws \in Conns : T_UnknownType(ws)
    \/ \E ws \in Conns : T_Malformed(ws)
    \/ \E ws \in Conns : T_Closing(ws)
    \/ \E ws \in Conns : T_Close(ws)
    \/ T_Sweep
    \/ T_Tick

SpecTimed == Init /\ [][T_Next]_vars /\ WF_vars(T_Tick) /\ WF_vars(T_Sweep)

----------------------------------------------------------------------------
(* Reading the frames a socket was sent *)

\* the frames sent to c by the last handler, as a set
Frames(c) == {sent[c][i] : i \in 1..Len(sent[c])}

\* the records a frame carries: itself if it is a chat-message, the
\* members of messages if it is a chat-history
Records(f) ==
    IF f.type = "chat-message" THEN {f}
    ELSE IF f.type = "chat-history" /\ "messages" \in DOMAIN f
    THEN {f.messages[i] : i \in 1..Len(f.messages)}
    ELSE {}

\* r was sent on the channel of team T
OnTeamChannel(r, T) == r.type = "chat-message" /\ r.channel = T

\* the membership set of T
Members(T) == IF T \in DOMAIN teamChannels THEN teamChannels[T] ELSE {}

\* c has a session with joined = true
Joined(c) == c \in DOMAIN users /\ users[c].joined

\* the step is the handler of ws serving data (part_002)
Handles(ws, data) ==
    last'.op = "message" /\ last'.ws = ws /\ Message(ws, data)

----------------------------------------------------------------------------
(* C1: a session is sent a record of team T's channel, live or inside a    *)
(* chat-history, only if it has passed team authentication for T.          *)

C1_TeamChannelsPrivate ==
    \A c \in Conns : \A f \in Frames(c) : \A r \in Records(f) :
        \A T \in DOMAIN teamCodes :
            OnTeamChannel(r, T) => T \in authed[c]

----------------------------------------------------------------------------
(* C3: a chat-message whose channel names a team channel T is delivered    *)
(* only to members of T's membership set, whatever the sender's team.      *)

C3_TeamFanoutWithinMembership ==
    \A c \in Conns : \A f \in Frames(c) :
        (f.type = "chat-message" /\ f.channel # "global")
            => c \in Members(f.channel)

----------------------------------------------------------------------------
(* C4: no session is in the membership sets of two teams of the            *)
(* credential table at once.                                               *)

C4_AtMostOneTeam ==
    \A c \in Conns : \A T1, T2 \in DOMAIN teamCodes :
        (c \in Members(T1) /\ c \in Members(T2)) => T1 = T2

----------------------------------------------------------------------------
(* C5: a session's teamCode, once set to a team of the credential table,   *)
(* keeps its value in every later state in which the session exists.       *)

C5_TeamCodeImmutable ==
    [][\A c \in DOMAIN users :
          (users[c].teamCode \in DOMAIN teamCodes /\ c \in DOMAIN users')
              => users'[c].teamCode = users[c].teamCode]_vars

----------------------------------------------------------------------------
(* C6 (server.js): an open connection that has not sent user-join is sent  *)
(* nothing by the handlers of other connections.                           *)

C6_UnjoinedReceivesNothing ==
    \A c \in Conns :
        (readyState[c] = "OPEN" /\ ~Joined(c) /\ last.ws # c) => sent[c] = <<>>

----------------------------------------------------------------------------
(* C2 (part_002): a chat-message to the global channel from a joined       *)
(* session is delivered to every other session that is joined and open,    *)
(* and to no session that is unjoined or not open.                         *)

C2_GlobalChatFanout ==
    [][\A ws \in Conns : \A data \in ChatMessageData :
          (Handles(ws, data) /\ Joined(ws) /\ data.channel \in {"global", Undefined})
          => LET msg == ChatMessage(users[ws].username, data.text, "global", now)
             IN \A c \in Conns \ {ws} :
                    IF Joined(c) /\ readyState[c] = "OPEN"
                    THEN sent'[c] = <<msg>>
                    ELSE sent'[c] = <<>>]_vars

\* a global chat-message of one session has just been delivered to another
C2_Witness ==
    /\ last.op = "message"
    /\ \E c \in Conns \ {last.ws} : \E f \in Frames(c) :
          /\ f.type = "chat-message" /\ f.channel = "global"
          /\ f \in Frames(last.ws)

----------------------------------------------------------------------------
(* C7: appending a record to a channel and then reading the channel's      *)
(* history returns a sequence that ends with the record, preceded by the   *)
(* previous contents in their order, less the head when the count bound    *)
(* was reached and only then; a record equal to one already there is a     *)
(* second entry.                                                           *)

\* the buffer of a channel, empty if it has none
Buffer(ch) == IF ch \in DOMAIN messageHistory THEN messageHistory[ch] ELSE <<>>

\* what get-history{ch} reads after the step, given that rec was appended
AppendThenGet(ch, rec) ==
    LET old == Buffer(ch)
        reply == historyFrame(State', ch)
        got == reply.messages
        n == Len(got)
    IN /\ "messages" \in DOMAIN reply
       /\ n >= 1
       /\ got[n] = rec
       /\ IF Len(old) < MAX_HISTORY
          THEN SubSeq(got, 1, n - 1) = old
          ELSE SubSeq(got, 1, n - 1) = Tail(old)

----------------------------------------------------------------------------
(* C8: right after the sweep runs at time now, every buffer holds exactly  *)
(* its records with now - rawTime < MSG_LIFETIME_MS, in their previous     *)
(* order: what stays is young enough, what went was not.                   *)

\* the positions of h whose record is younger than the lifetime at time t
Young(h, t) == {i \in 1..Len(h) : t - h[i].rawTime < MSG_LIFETIME_MS}

\* the k-th smallest member of a set of positions
Kth(I, k) == CHOOSE i \in I : Cardinality({j \in I : j < i}) = k - 1

C8_SweepKeepsYoung ==
    [][last'.op = "sweep"
       => /\ DOMAIN messageHistory' = DOMAIN messageHistory
          /\ \A ch \in DOMAIN messageHistory :
                LET h == messageHistory[ch]
                    kept == messageHistory'[ch]
                IN /\ \A k \in 1..Len(kept) : now - kept[k].rawTime < MSG_LIFETIME_MS
                   /\ Len(kept) = Cardinality(Young(h, now))
                   /\ \A k \in 1..Len(kept) : kept[k] = h[Kth(Young(h, now), k)]]_vars

\* the sweep has run: the join notice of a live session is gone from the
\* global buffer and a younger record of another channel has stayed
C8_Witness ==
    /\ last.op = "sweep"
    /\ \E c \in Conns : Joined(c)
    /\ messageHistory["global"] = <<>>
    /\ \E ch \in DOMAIN messageHistory : messageHistory[ch] # <<>>

----------------------------------------------------------------------------
(* C9: get-history from a joined session for a channel with no history     *)
(* (an empty buffer, or a name with no buffer) replies with one            *)
(* chat-history frame whose messages is the empty sequence, and creates    *)
(* no buffer.                                                              *)

C9_EmptyHistoryReply ==
    [][\A ws \in Conns : \A data \in GetHistoryData :
          (Handles(ws, data) /\ Joined(ws)
              /\ Buffer(OrElse(data.channel, "global")) = <<>>)
          => /\ sent'[ws] = <<[type |-> "chat-history", messages |-> <<>>]>>
             /\ DOMAIN messageHistory' = DOMAIN messageHistory]_vars

----------------------------------------------------------------------------
(* C10 (part_002): when an unjoined session sends user-join with name n,   *)
(* the notice "[n] joined the chat." becomes the last record of the global *)
(* history and is delivered to every other joined open session; a record   *)
(* leaves the global buffer only by the count bound or the sweep, and the  *)
(* reply to get-history for global is the buffer as it then is.            *)

C10_JoinNotice ==
    [][/\ \A ws \in Conns : \A data \in UserJoinData :
             (Handles(ws, data) /\ ~Joined(ws) /\ data.username # Undefined)
             => LET note == SystemMessage("[" \o data.username \o "] joined the chat.",
                                          now)
                    h == messageHistory'["global"]
                IN /\ Len(h) >= 1 /\ h[Len(h)] = note
                   /\ \A c \in Conns \ {ws} :
                         (Joined(c) /\ readyState[c] = "OPEN") => sent'[c] = <<note>>
       /\ \A i \in 1..Len(messageHistory["global"]) :
             LET h == messageHistory["global"]
                 h2 == messageHistory'["global"]
             IN \/ \E k \in 1..Len(h2) : h2[k] = h[i]
                \/ last'.op = "sweep" /\ now - h[i].rawTime >= MSG_LIFETIME_MS
                \/ i = 1 /\ Len(h) = MAX_HISTORY /\ Len(h2) = MAX_HISTORY
                         /\ SubSeq(h2, 1, MAX_HISTORY - 1) = Tail(h)
       /\ \A ws \in Conns : \A data \in GetHistoryData :
             (Handles(ws, data) /\ Joined(ws) /\ data.channel \in {"global", Undefined})
             => sent'[ws] = <<[type |-> "chat-history",
                               messages |-> messageHistory'["global"]]>>]_vars

\* Alice has just joined: the other session, joined and open, was sent the
\* notice, and the notice is the last record of the global history
C10_Witness ==
    /\ last.op = "message"
    /\ \E c \in Conns \ {last.ws} :
          /\ Joined(c) /\ readyState[c] = "OPEN"
          /\ sent[c] = <<SystemMessage("[Alice] joined the chat.", now)>>
    /\ messageHistory["global"][Len(messageHistory["global"])]
          = SystemMessage("[Alice] joined the chat.", now)
    /\ Len(sent[last.ws]) = 2
    /\ sent[last.ws][2] = [type |-> "chat-history",
                           messages |-> messageHistory["global"]]

----------------------------------------------------------------------------
(* C11 (part_002): a join-team request of a joined session that fails      *)
(* authentication sends the requester exactly one system error and nobody  *)
(* else anything, and leaves the session registry, every membership set    *)
(* and every history buffer as they were; the requester is in no           *)
(* membership set it was not in before.                                    *)

\* f is a system error addressed to one requester
SystemError(f) ==
    /\ f.type = "system-message"
    /\ DOMAIN f = {"type", "text", "timestamp"}
    /\ f.text \in {"Invalid author key.", "Invalid team code.",
                   "Unknown message type.", "Error processing your request."}

----------------------------------------------------------------------------
(* C12 (part_002): a chat-message that names a team channel and comes from *)
(* a joined session whose teamCode is null is rejected: the sender is sent *)
(* one private error, no history buffer changes, and no other session is   *)
(* sent anything.                                                          *)

C12_TeamChatWithoutTeamRejected ==
    [][\A ws \in Conns : \A data \in ChatMessageData :
          (Handles(ws, data) /\ Joined(ws) /\ users[ws].teamCode = Null
              /\ data.channel \in DOMAIN teamCodes)
          => /\ Len(sent'[ws]) = 1
             /\ sent'[ws][1].type = "system-message"
             /\ messageHistory' = messageHistory
             /\ \A c \in Conns \ {ws} : sent'[c] = <<>>]_vars

----------------------------------------------------------------------------
(* C13: once the close event of a connection has been handled, no team's   *)
(* membership set contains the connection, whatever it sent before.        *)

C13_ClosedNotMember ==
    \A c \in Conns :
        readyState[c] = "CLOSED" => \A T \in DOMAIN teamCodes : c \notin Members(T)

----------------------------------------------------------------------------
(* C14: when a session that is already joined sends user-join again, its   *)
(* display name becomes the new one, no other session is sent a join       *)
(* notice and the global history gains no record.                          *)

C14_RejoinSilent ==
    [][\A ws \in Conns : \A data \in UserJoinData :
          (Handles(ws, data) /\ Joined(ws))
          => /\ users'[ws].username = OrElse(data.username, "AnonymousSnake")
             /\ messageHistory'["global"] = messageHistory["global"]
             /\ \A c \in Conns \ {ws} : sent'[c] = <<>>]_vars

----------------------------------------------------------------------------
(* C15: what a requester is sent for a failed join-team does not depend on *)
(* why it failed: from the same state, any two failing join-team requests  *)
(* (unknown team code, wrong author key) are answered with the same        *)
(* frames.                                                                 *)

C15_FailureIndistinguishable ==
    [][\A ws \in Conns : \A d1, d2 \in JoinTeamData :
          (/\ Handles(ws, d1) /\ Joined(ws)
           /\ ~authenticates(d1.teamCode, d1.authorKey)
           /\ ~authenticates(d2.teamCode, d2.authorKey))
          => onMessage(State, ws, d2).sent[ws] = sent'[ws]]_vars

----------------------------------------------------------------------------
(* C16 (part_002): a session's teamCode becomes T, and the session enters  *)
(* T's membership set, only in a step that serves its own join-team        *)
(* request whose teamCode T is an entry of the credential table and whose  *)
(* authorKey equals that entry's authorKey; a join-team with any other     *)
(* pair, a missing field included, changes neither the registry nor a      *)
(* membership set.                                                         *)

\* the pair is an entry of the credential table with exactly its key
Credential(code, authorKey) ==
    code \in DOMAIN teamCodes /\ teamCodes[code].authorKey = authorKey

C16_AuthOnlyWithExactKey ==
    [][/\ \A c \in Conns : \A T \in TeamCodeInputs \ {Undefined} :
             (\/ /\ c \in DOMAIN users' /\ users'[c].teamCode = T
                 /\ ~(c \in DOMAIN users /\ users[c].teamCode = T)
              \/ /\ T \in DOMAIN teamChannels' /\ c \in teamChannels'[T]
                 /\ c \notin Members(T))
             => \E data \in JoinTeamData :
                   /\ Handles(c, data)
                   /\ data.teamCode = T
                   /\ Credential(T, data.authorKey)
       /\ \A ws \in Conns : \A data \in JoinTeamData :
             (Handles(ws, data) /\ ~Credential(data.teamCode, data.authorKey))
             => users' = users /\ teamChannels' = teamChannels]_vars

----------------------------------------------------------------------------
(* C17 (part_002): once the close event of a connection has been handled,  *)
(* the session registry holds no entry for the connection, whether or not  *)
(* the session had joined.                                                 *)

C17_ClosedNotRegistered ==
    \A c \in Conns : readyState[c] = "CLOSED" => c \notin DOMAIN users

----------------------------------------------------------------------------
(* C18 (part_002): the disconnection cleanup of a connection runs exactly  *)
(* once, however its close event interleaves with its own messages and     *)
(* with the events of other connections.  The close handler of a joined    *)
(* session appends exactly one departure notice to the global history and  *)
(* sends it to every other joined open session; that of a session that     *)
(* never joined appends and sends nothing.  A departure notice is sent     *)
(* by no other step, and after the close handler has run no step runs a    *)
(* handler for the connection, sends it a frame, or changes its            *)
(* membership or its registry entry.                                       *)

\* the texts of the departure notices of the names a session can have
LeftTexts == {LeftText(OrElse(n, "AnonymousSnake")) : n \in Usernames}

\* the array after push(rec) and the shift() of a full one
Pushed(h, rec) == IF Len(h) < MAX_HISTORY THEN Append(h, rec) ELSE Append(Tail(h), rec)

C18_CleanupOnce ==
    [][/\ \A ws \in Conns :
             (last'.op = "close" /\ last'.ws = ws /\ Close(ws))
             => /\ readyState[ws] # "CLOSED"
                /\ readyState'[ws] = "CLOSED"
                /\ IF Joined(ws)
                   THEN LET note == SystemMessage(LeftText(users[ws].username), now)
                        IN /\ messageHistory'["global"]
                                 = Pushed(messageHistory["global"], note)
                           /\ \A ch \in DOMAIN messageHistory \ {"global"} :
                                 messageHistory'[ch] = messageHistory[ch]
                           /\ sent'[ws] = <<>>
                           /\ \A c \in Conns \ {ws} :
                                 sent'[c] = IF Joined(c) /\ readyState[c] = "OPEN"
                                            THEN <<note>> ELSE <<>>
                   ELSE /\ messageHistory' = messageHistory
                        /\ users' = users
                        /\ teamChannels' = teamChannels
                        /\ sent' = NoSent
       /\ \A c \in Conns : \A i \in 1..Len(sent'[c]) :
             (sent'[c][i].type = "system-message" /\ sent'[c][i].text \in LeftTexts)
             => last'.op = "close" /\ Joined(last'.ws)
       /\ \A ws \in Conns :
             readyState[ws] = "CLOSED"
             => /\ readyState'[ws] = "CLOSED"
                /\ last'.ws # ws
                /\ sent'[ws] = <<>>
                /\ (ws \in DOMAIN users') <=> (ws \in DOMAIN users)
                /\ \A T \in DOMAIN teamChannels' \cup DOMAIN teamChannels :
                      (T \in DOMAIN teamChannels' /\ ws \in teamChannels'[T])
                          <=> (ws \in Members(T))]_vars

\* the connection of a joined session has just closed: its entry is gone,
\* the other session, joined and open, was sent the one departure notice,
\* which is the last global record
C18_Witness ==
    /\ last.op = "close"
    /\ readyState[last.ws] = "CLOSED"
    /\ last.ws \notin DOMAIN users
    /\ \E c \in Conns \ {last.ws} :
          /\ Joined(c) /\ readyState[c] = "OPEN"
          /\ sent[c] = <<SystemMessage(LeftText("Alice"), now)>>
    /\ messageHistory["global"][Len(messageHistory["global"])]
          = SystemMessage(LeftText("Alice"), now)

----------------------------------------------------------------------------
(* C19 (server.js): a frame that cannot be parsed, or whose type is none   *)
(* of the known kinds, makes the server send exactly one system error to   *)
(* the requester and nothing to anyone else, leaves the session registry,  *)
(* the membership sets and the history buffers unchanged, and leaves the   *)
(* connection open.                                                        *)

\* the step is the handler of ws serving data (server.js)
S_Handles(ws, data) ==
    last'.op = "message" /\ last'.ws = ws /\ S_Message(ws, data)

C19_MalformedInput ==
    [][\A ws \in Conns : \A data \in UnknownData \cup MalformedData :
          S_Handles(ws, data)
          => /\ Len(sent'[ws]) = 1 /\ SystemError(sent'[ws][1])
             /\ \A c \in Conns \ {ws} : sent'[c] = <<>>
             /\ users' = users
             /\ teamChannels' = teamChannels
             /\ messageHistory' = messageHistory
             /\ readyState'[ws] = "OPEN"]_vars

----------------------------------------------------------------------------
(* C20 (part_001): when the connection of a member of team T closes, every *)
(* other member of T whose socket is open is sent the team departure       *)
(* notice, the notice is appended to T's history, and the closing session  *)
(* is no longer in T's membership set.                                     *)

C20_TeamDeparture ==
    [][\A ws \in Conns : \A T \in DOMAIN P_teamCodes :
          (last'.op = "close" /\ last'.ws = ws /\ P_Close(ws) /\ ws \in Members(T))
          => LET note == SystemMessage(P_LeftTeamText(users[ws].teamUsername), now)
             IN /\ \A c \in Members(T) \ {ws} :
                      readyState[c] = "OPEN"
                          => \E i \in 1..Len(sent'[c]) : sent'[c][i] = note
                /\ messageHistory'[T] = Pushed(messageHistory[T], note)
                /\ ws \notin teamChannels'[T]]_vars

----------------------------------------------------------------------------
(* C21: in every reachable state, whatever chat-message, user-join, close  *)
(* and sweep events came before, every channel's history buffer holds at   *)
(* most MAX_HISTORY records.                                               *)

C21_HistoryBounded ==
    \A ch \in DOMAIN messageHistory : Len(messageHistory[ch]) <= MAX_HISTORY

\* the clock has not moved, so the sweep has removed nothing, and the global
\* buffer is full with a chat-message at its head: the join notice that was
\* appended before any chat-message has been evicted by the count bound
C21_Witness ==
    /\ now = 0
    /\ last.op = "message"
    /\ Len(messageHistory["global"]) = MAX_HISTORY
    /\ messageHistory["global"][1].type = "chat-message"

----------------------------------------------------------------------------
(* C22: when an append makes a buffer exceed the count bound, the one      *)
(* record evicted is the oldest: every record that remains has a rawTime   *)
(* greater than or equal to that of the evicted one.  Every buffer is at   *)
(* all times ordered by non-decreasing rawTime, and the sweep removes a    *)
(* prefix of a buffer and nothing else.                                    *)

\* h is ordered by non-decreasing rawTime
Sorted(h) == \A i \in 1..(Len(h) - 1) : h[i].rawTime <= h[i + 1].rawTime

\* k is what is left of h when a prefix is removed
IsSuffix(k, h) ==
    Len(k) <= Len(h) /\ k = SubSeq(h, Len(h) - Len(k) + 1, Len(h))

C22_EvictsOldest ==
    [][\A ch \in DOMAIN messageHistory' :
          LET h == Buffer(ch)
              h2 == messageHistory'[ch]
          IN /\ Sorted(h) /\ Sorted(h2)
             /\ last'.op = "sweep" => IsSuffix(h2, h)
             /\ (last'.op # "sweep" /\ h2 # h)
                => /\ Len(h2) >= 1
                   /\ IF Len(h) < MAX_HISTORY
                      THEN SubSeq(h2, 1, Len(h2) - 1) = h
                      ELSE /\ SubSeq(h2, 1, Len(h2) - 1) = Tail(h)
                           /\ \A k \in 1..Len(h2) :
                                 h2[k].rawTime >= h[1].rawTime]_vars

\* an append at clock 1 has just evicted the join notice of clock 0 from the
\* full global buffer: a chat-message of clock 0 is now the head, the new
\* record of clock 1 the tail
C22_Witness ==
    /\ now = 1
    /\ last.op \in {"message", "close"}
    /\ Len(messageHistory["global"]) = MAX_HISTORY
    /\ messageHistory["global"][1].type = "chat-message"
    /\ messageHistory["global"][1].rawTime = 0
    /\ messageHistory["global"][MAX_HISTORY].rawTime = 1

----------------------------------------------------------------------------
(* C23 (part_002): within a channel, records are delivered in the order in *)
(* which they were appended to its history, and a record is in the history *)
(* before any recipient is sent it, however the messages of different      *)
(* senders interleave.  Handlers run one after the other, so it is enough  *)
(* that a handler fans out to a socket at most one record, and only the    *)
(* record that this very handler has appended as the last of its channel.  *)

\* the positions of the records fanned out to c by the step: a record
\* carries its rawTime, a direct reply and a chat-history frame do not
FannedOut(c) == {i \in 1..Len(sent'[c]) : "rawTime" \in DOMAIN sent'[c][i]}

C23_DeliveryInAppendOrder ==
    [][\A c \in Conns :
          /\ Cardinality(FannedOut(c)) <= 1
          /\ \A i \in FannedOut(c) :
                LET f == sent'[c][i]
                IN \E ch \in DOMAIN messageHistory' :
                      /\ f.type = "chat-message" => ch = f.channel
                      /\ messageHistory'[ch] = Pushed(Buffer(ch), f)]_vars

\* two senders: the chat-message r1 of one session was appended to the
\* global history, then r2 of the other; the step that appended r2 has sent
\* r2, and nothing else, to the sender of r1
C23_Witness ==
    /\ last.op = "message"
    /\ Len(messageHistory["global"]) = 2
    /\ messageHistory["global"][1].type = "chat-message"
    /\ messageHistory["global"][2].type = "chat-message"
    /\ messageHistory["global"][1].username # messageHistory["global"][2].username
    /\ \E c \in Conns \ {last.ws} :
          /\ Joined(c)
          /\ users[c].username = messageHistory["global"][1].username
          /\ sent[c] = <<messageHistory["global"][2]>>

----------------------------------------------------------------------------
(* C24 (part_002): a join-team of a joined session that names a team T of  *)
(* the credential table with T's author key sets the session's teamCode to *)
(* T and makes the session a member of T's set, which is otherwise as it   *)
(* was (a repeated join leaves it unchanged); the requester is sent the    *)
(* confirmation and then T's history buffer as it is, no other session is  *)
(* sent anything, no other session changes and no history buffer changes.  *)

C24_JoinTeamSuccess ==
    [][\A ws \in Conns : \A data \in JoinTeamData :
          (Handles(ws, data) /\ Joined(ws)
              /\ Credential(data.teamCode, data.authorKey))
          => LET T == data.teamCode
             IN /\ users'[ws] = [users[ws] EXCEPT !.teamCode = T]
                /\ \A c \in DOMAIN users \ {ws} : users'[c] = users[c]
                /\ T \in DOMAIN teamChannels'
                /\ teamChannels'[T] = Members(T) \cup {ws}
                /\ ws \in Members(T) => teamChannels'[T] = teamChannels[T]
                /\ sent'[ws] = <<Reply("Joined team channel for "
                                        \o teamCodes[T].code, now),
                                 [type |-> "chat-history", messages |-> Buffer(T)]>>
                /\ \A c \in Conns \ {ws} : sent'[c] = <<>>
                /\ messageHistory' = messageHistory]_vars

\* a session has just joined [REKT]: it was sent the confirmation and the
\* team's history, which holds a record, while the other session, joined
\* and open, was sent nothing
C24_Witness ==
    /\ last.op = "message"
    /\ Joined(last.ws)
    /\ users[last.ws].teamCode = "[REKT]"
    /\ last.ws \in Members("[REKT]")
    /\ messageHistory["[REKT]"] # <<>>
    /\ sent[last.ws] = <<Reply("Joined team channel for REKT", now),
                         [type |-> "chat-history",
                          messages |-> messageHistory["[REKT]"]]>>
    /\ \E c \in Conns \ {last.ws} :
          Joined(c) /\ readyState[c] = "OPEN" /\ sent[c] = <<>>

----------------------------------------------------------------------------
(* C25 (part_001): a record fanned out on a channel is delivered exactly   *)
(* once to every session that is an open, joined member of the channel     *)
(* when it is fanned out (every joined open session for the global         *)
(* channel, the open members of the sender's team for its team channel),   *)
(* also when another record was created at the same clock value.           *)

\* the step is the handler of ws serving data (part_001)
P_Handles(ws, data) ==
    last'.op = "message" /\ last'.ws = ws /\ P_Message(ws, data)

\* how many times the step has sent c the frame f
TimesSent(c, f) == Cardinality({i \in 1..Len(sent'[c]) : sent'[c][i] = f})

C25_ExactlyOnce ==
    [][\A ws \in Conns : \A data \in P_ChatMessageData :
          LET channel == OrElse(data.channel, "global")
          IN /\ (/\ P_Handles(ws, data) /\ Joined(ws)
                 /\ channel = "global"
                 /\ P_truthy(users[ws].globalUsername))
                => \A c \in Conns :
                      (Joined(c) /\ readyState[c] = "OPEN")
                      => TimesSent(c, ChatMessage(users[ws].globalUsername,
                                                  data.text, channel, now)) = 1
             /\ (/\ P_Handles(ws, data) /\ Joined(ws)
                 /\ channel \in DOMAIN P_teamCodes
                 /\ users[ws].teamCode = channel
                 /\ P_truthy(users[ws].teamUsername))
                => \A c \in Members(channel) :
                      readyState[c] = "OPEN"
                      => TimesSent(c, ChatMessage(users[ws].teamUsername,
                                                  data.text, channel, now)) = 1]_vars

----------------------------------------------------------------------------
(* C26 (part_002): a chat-message, get-history or join-team request of a   *)
(* session with joined = false changes no session, no membership set and   *)
(* no history buffer and sends nothing to any other session; the requester *)
(* is sent no record and no history, its connection stays open and its     *)
(* session stays unjoined.                                                 *)

C26_UnjoinedRequestsInert ==
    [][\A ws \in Conns :
       \A data \in ChatMessageData \cup GetHistoryData \cup JoinTeamData :
          (Handles(ws, data) /\ ~Joined(ws))
          => /\ users' = users
             /\ teamChannels' = teamChannels
             /\ messageHistory' = messageHistory
             /\ \A c \in Conns \ {ws} : sent'[c] = <<>>
             /\ \A i \in 1..Len(sent'[ws]) : SystemError(sent'[ws][i])
             /\ readyState'[ws] = "OPEN"
             /\ ws \in DOMAIN users' /\ ~users'[ws].joined]_vars

\* a request of an open session that never sent user-join has just been
\* dropped: it was sent nothing, although another session is joined and the
\* global history holds a record
C26_Witness ==
    /\ last.op = "message"
    /\ readyState[last.ws] = "OPEN"
    /\ last.ws \in DOMAIN users /\ ~users[last.ws].joined
    /\ sent = NoSent
    /\ messageHistory["global"] # <<>>
    /\ \E c \in Conns \ {last.ws} : Joined(c) /\ readyState[c] = "OPEN"

----------------------------------------------------------------------------
(* C27 (server.js): in every reachable state, every connection in the      *)
(* membership set of a team T has a session in the registry whose teamCode *)
(* is T; a session whose teamCode is null is in no membership set.         *)

C27_MembershipMatchesTeamCode ==
    \A T \in DOMAIN S_teamCodes : \A c \in Members(T) :
        c \in DOMAIN users /\ users[c].teamCode = T

----------------------------------------------------------------------------
(* C28 (part_002 with its timer): history is time-bounded.  With the       *)
(* cleanup job firing every SWEEP_INTERVAL and the clock advancing, every  *)
(* record appended to a channel is eventually removed from its buffer, and *)
(* in no reachable state does a buffer, or a chat-history reply, hold a    *)
(* record whose age is MSG_LIFETIME_MS + SWEEP_INTERVAL or more.           *)

\* the last time at which the timer fires before the clock stops
T_LastSweep == (T_MaxTime \div SWEEP_INTERVAL) * SWEEP_INTERVAL

\* every record of h is younger than lifetime + interval
T_Younger(h) ==
    \A i \in 1..Len(h) : now - h[i].rawTime < MSG_LIFETIME_MS + SWEEP_INTERVAL

T_AgeBounded ==
    /\ \A ch \in DOMAIN messageHistory : T_Younger(messageHistory[ch])
    /\ \A c \in Conns : \A f \in Frames(c) :
          (f.type = "chat-history" /\ "messages" \in DOMAIN f) => T_Younger(f.messages)

\* some buffer holds a record created at clock value t
T_Holds(t) ==
    \E ch \in DOMAIN messageHistory : \E i \in 1..Len(messageHistory[ch]) :
        messageHistory[ch][i].rawTime = t

C28_HistoryTimeBounded ==
    /\ []T_AgeBounded
    /\ \A t \in 0..(T_LastSweep - MSG_LIFETIME_MS) : T_Holds(t) ~> ~T_Holds(t)

\* the timer has just run the cleanup job for the first time: a session is
\* joined, so its join notice was appended to the global history, and the
\* job has emptied every buffer
C28_Witness ==
    /\ last.op = "sweep"
    /\ now = SWEEP_INTERVAL
    /\ \E c \in Conns : Joined(c)
    /\ \A ch \in DOMAIN messageHistory : messageHistory[ch] = <<>>
====
